---------------------------- MODULE Spec2Model ----------------------------
(***************************************************************************)
(* Model of mise-tasks-discover: the task parser (parseMiseTasks) and the  *)
(* change detector (filterByChangedSources).                               *)
(*                                                                         *)
(* Strings are sequences of one-character strings, so that startsWith,     *)
(* indexOf and slice are computed as the JavaScript code computes them.    *)
(***************************************************************************)
EXTENDS Integers, Sequences, FiniteSets, TLC

VARIABLES
    raw,        \* parseMiseTasks: the argument, a sequence of MiseTask
    parsed,     \* parseMiseTasks: the returned sequence of ParsedTask
    ppc,        \* parseMiseTasks: "call" before the call, "done" after it
    tasks,      \* filterByChangedSources: the tasks argument
    baseRef,    \* filterByChangedSources: the baseRef argument
    pc,         \* filterByChangedSources: position in the function body
    idx,        \* filterByChangedSources: 1-based position of the for-of loop
    result,     \* filterByChangedSources: the result array, as references
                \* (positions in tasks) to the task objects pushed
    calls,      \* every exec.exec invocation made so far, in order
    log,        \* every core.info / core.warning message so far, in order
    prefix,     \* filterByPrefix / run: the prefix argument (task-prefix)
    matched,    \* the array filterByPrefix returned
    projects,   \* the array groupByProject returned
    rpc,        \* run: position in the function body
    listing,    \* run: the exec.exec call of `mise tasks ls` and its outcome
    filtered,   \* run: the tasks given to groupByProject
    outputs,    \* every core.setOutput call so far, in order
    failures,   \* every core.setFailed call so far, in order
    thrown,     \* run: the value thrown inside the try block, if any
    prev        \* the finished earlier passes of filterByChangedSources

vars == <<raw, parsed, ppc, tasks, baseRef, pc, idx, result, calls, log,
          prefix, matched, projects, rpc, listing, filtered, outputs,
          failures, thrown, prev>>

(* what filterByChangedSources and parseMiseTasks never touch *)
outerVars == <<prefix, matched, projects, rpc, listing, filtered, outputs,
               failures, thrown, prev>>

-----------------------------------------------------------------------------
(* Bounds of the model *)

MaxNameLen == 5     \* longest raw task name, in characters
MaxRaw == 3         \* longest raw task list given to parseMiseTasks
MaxTasks == 3       \* longest task list given to filterByChangedSources
MaxPassTasks == 2   \* longest task list when two passes are compared
MaxRunTasks == 3    \* longest task list `mise tasks ls` prints in a run

(* Characters a task name is drawn from: the three the parser looks at,    *)
(* the character of the root project, and an ordinary letter.              *)
Alphabet == {"/", ":", ".", "a"}

-----------------------------------------------------------------------------
(* JavaScript string primitives used by the code *)

Min(a, b) == IF a <= b THEN a ELSE b

(* String.prototype.slice(start, end) for non-negative arguments:         *)
(* the characters at 0-based positions start .. end-1, clamped.           *)
slice(s, start, end) == SubSeq(s, Min(start, Len(s)) + 1, Min(end, Len(s)))

(* String.prototype.slice(start) *)
sliceFrom(s, start) == slice(s, start, Len(s))

(* mutant of startsWith: the search string is looked for anywhere *)
startsWith_includes(s, p) ==
    \E k \in 0..(Len(s) - Len(p)) : SubSeq(s, k + 1, k + Len(p)) = p

(* String.prototype.startsWith(p) *)
startsWith(s, p) == Len(s) >= Len(p) /\ SubSeq(s, 1, Len(p)) = p

(* mutant of indexOf: the LAST occurrence (lastIndexOf) *)
indexOf_last(s, c) ==
    IF \E k \in 1..Len(s) : s[k] = c
    THEN (CHOOSE k \in 1..Len(s) :
              s[k] = c /\ \A j \in (k + 1)..Len(s) : s[j] # c) - 1
    ELSE -1

(* String.prototype.indexOf(c): 0-based position of the first c, or -1 *)
indexOf(s, c) ==
    IF \E k \in 1..Len(s) : s[k] = c
    THEN (CHOOSE k \in 1..Len(s) :
              s[k] = c /\ \A j \in 1..(k - 1) : s[j] # c) - 1
    ELSE -1

-----------------------------------------------------------------------------
(* parseMiseTasks *)

Marker == <<"/", "/">>
Root == <<".">>

(* name.slice(2) *)
withoutPrefix(name) == sliceFrom(name, 2)

(* withoutPrefix.indexOf(':') *)
colonIdx(name) == indexOf(withoutPrefix(name), ":")

(* mutant of rawProject: the slice keeps the colon (off by one) *)
rawProject_keepsColon(name) ==
    IF colonIdx(name) >= 0
    THEN slice(withoutPrefix(name), 0, colonIdx(name) + 1)
    ELSE withoutPrefix(name)

(* project as computed in the monorepo branch, before the root rule *)
rawProject(name) ==
    IF colonIdx(name) >= 0
    THEN slice(withoutPrefix(name), 0, colonIdx(name))
    ELSE withoutPrefix(name)

(* mutant of rootIfEmpty: the empty project is left as it is *)
rootIfEmpty_none(project) == project

(* if (project === '') project = '.' *)
rootIfEmpty(project) == IF project = <<>> THEN Root ELSE project

(* the project field of the parsed task *)
projectOf(name) ==
    IF startsWith(name, Marker) THEN rootIfEmpty(rawProject(name)) ELSE Root

(* mutant of localNameOf: the qualifier is never stripped *)
localNameOf_verbatim(name) == name

(* the localName field of the parsed task *)
localNameOf(name) ==
    IF startsWith(name, Marker)
    THEN IF colonIdx(name) >= 0
         THEN sliceFrom(withoutPrefix(name), colonIdx(name) + 1)
         ELSE <<>>
    ELSE name

(* mutant of sourcesOrEmpty: only the first glob is copied *)
sourcesOrEmpty_first(s) ==
    IF s.isNull \/ s.globs = <<>> THEN <<>> ELSE <<s.globs[1]>>

(* t.sources ?? [] : a raw record's sources is null/absent or an array *)
sourcesOrEmpty(s) == IF s.isNull THEN <<>> ELSE s.globs

(* the callback of raw.map *)
ParseOne(t) ==
    [project   |-> projectOf(t.name),
     task      |-> t.name,
     localName |-> localNameOf(t.name),
     sources   |-> sourcesOrEmpty(t.sources)]

(* mutant of parseMiseTasks: records without a local name are skipped *)
parseMiseTasks_skipsUnnamed(r) ==
    LET all == [k \in 1..Len(r) |-> ParseOne(r[k])]
        named(t) == t.localName # <<>>
    IN SelectSeq(all, named)

(* raw.map(callback) *)
parseMiseTasks(r) == [k \in 1..Len(r) |-> ParseOne(r[k])]

-----------------------------------------------------------------------------
(* Inputs of parseMiseTasks *)

SeqsUpTo(S, n) == UNION {[1..k -> S] : k \in 0..n}

Names == SeqsUpTo(Alphabet, MaxNameLen)

Glob1 == <<"s", "*">>
Glob2 == <<"d">>

NullSources == [isNull |-> TRUE, globs |-> <<>>]
Sources(g) == [isNull |-> FALSE, globs |-> g]

(* every name, with sources absent, empty or one glob *)
RawAll ==
    [name : Names, sources : {NullSources, Sources(<<>>), Sources(<<Glob1>>)}]

(* the records the longer lists are made of: a plain name, a qualified    *)
(* name, a root-qualified name and a qualified name without a colon       *)
RawSmall ==
    { [name |-> <<"a">>, sources |-> NullSources],
      [name |-> <<"/", "/", "a", ":", "a">>, sources |-> Sources(<<Glob1>>)],
      [name |-> <<"/", "/", ":", "a">>, sources |-> Sources(<<>>)],
      [name |-> <<"/", "/", "a">>, sources |-> Sources(<<Glob1, Glob2>>)] }

RawLists == SeqsUpTo(RawAll, 1) \cup SeqsUpTo(RawSmall, MaxRaw)

-----------------------------------------------------------------------------
(* Inputs of filterByChangedSources *)

FilterRaw ==
    [name : {<<"a">>, <<"/", "/", "a", ":", "a">>},
     sources : {Sources(<<>>), Sources(<<Glob1>>), Sources(<<Glob1, Glob2>>)}]

TaskPool == {ParseOne(r) : r \in FilterRaw}

TaskLists == SeqsUpTo(TaskPool, MaxTasks)

BaseRefs == {<<>>, <<"a", "b", "c", "1", "2", "3">>}

(* exit codes of git diff --quiet: unchanged, changed, bad ref *)
ExitCodes == {0, 1, 128}

-----------------------------------------------------------------------------
(* filterByChangedSources *)

GlobMagic == <<":", "(", "g", "l", "o", "b", ")">>
Git == <<"g", "i", "t">>
Diff == <<"d", "i", "f", "f">>
Quiet == <<"-", "-", "q", "u", "i", "e", "t">>
HeadRev == <<"H", "E", "A", "D">>
DashDash == <<"-", "-">>

Info(pre, name, post) == [level |-> "info", msg |-> <<pre, name, post>>]
Warning(pre, name, post) == [level |-> "warning", msg |-> <<pre, name, post>>]

(* mutant of hasNoSources: the empty-sources test never succeeds *)
hasNoSources_never(task) == FALSE

(* task.sources.length === 0 *)
hasNoSources(task) == Len(task.sources) = 0

(* mutant of pathspec: the project is never put in front of the glob *)
pathspec_unprefixed(task, glob) == GlobMagic \o glob

(* the callback of task.sources.map *)
pathspec(task, glob) ==
    IF task.project = Root
    THEN GlobMagic \o glob
    ELSE GlobMagic \o task.project \o <<"/">> \o glob

pathspecs(task) ==
    [k \in 1..Len(task.sources) |-> pathspec(task, task.sources[k])]

(* mutant of gitArgs: the '--' before the pathspecs is missing *)
gitArgs_noDashes(ref, task) == <<Diff, Quiet, ref, HeadRev>> \o pathspecs(task)

gitArgs(ref, task) == <<Diff, Quiet, ref, HeadRev, DashDash>> \o pathspecs(task)

(* mutant of keepOnExit: only exit code 1 keeps the task *)
keepOnExit_onlyOne(code) == code = 1

(* the else branch of `if (exitCode === 0)` *)
keepOnExit(code) == code # 0

Pending == {k \in 1..Len(calls) : calls[k].status = "pending"}

(* the mise listing call before it is made *)
NoListing == [status |-> "none", code |-> 0, stdout |-> "none"]

(* no value thrown *)
NoFault == [kind |-> "none", message |-> ""]

outerIdle == /\ prefix = <<>>
             /\ matched = <<>>
             /\ projects = <<>>
             /\ rpc = "idle"
             /\ listing = NoListing
             /\ filtered = <<>>
             /\ outputs = <<>>
             /\ failures = <<>>
             /\ thrown = NoFault
             /\ prev = <<>>

parseIdle == /\ raw = <<>>
             /\ parsed = <<>>
             /\ ppc = "idle"

InitFilter ==
    /\ parseIdle
    /\ outerIdle
    /\ tasks \in TaskLists
    /\ baseRef \in BaseRefs
    /\ pc = "enter"
    /\ idx = 1
    /\ result = <<>>
    /\ calls = <<>>
    /\ log = <<>>

(* core.info(header); const result = [] *)
FilterEnter ==
    /\ pc = "enter"
    /\ log' = Append(log, Info("Filtering tasks by changes since ", baseRef, "..."))
    /\ result' = <<>>
    /\ idx' = 1
    /\ pc' = "loop"
    /\ UNCHANGED <<raw, parsed, ppc, tasks, baseRef, calls>>
    /\ UNCHANGED outerVars

(* the empty-sources branch: log, push, continue *)
TaskNoSources ==
    /\ pc = "loop"
    /\ idx <= Len(tasks)
    /\ hasNoSources(tasks[idx])
    /\ log' = Append(log, Info("  ", tasks[idx].task, ": no sources, included"))
    /\ result' = Append(result, idx)
    /\ idx' = idx + 1
    /\ UNCHANGED <<raw, parsed, ppc, tasks, baseRef, pc, calls>>
    /\ UNCHANGED outerVars

(* build the pathspecs and the arguments, call exec.exec and await it *)
ExecGit ==
    /\ pc = "loop"
    /\ idx <= Len(tasks)
    /\ ~hasNoSources(tasks[idx])
    /\ calls' = Append(calls, [idx    |-> idx,
                               cmd    |-> Git,
                               args   |-> gitArgs(baseRef, tasks[idx]),
                               status |-> "pending",
                               code   |-> 0])
    /\ pc' = "await"
    /\ UNCHANGED <<raw, parsed, ppc, tasks, baseRef, idx, result, log>>
    /\ UNCHANGED outerVars

(* mutant of ExecReturns: once a task has been kept, every queried task  *)
(* is kept (the decision reads state shared between the tasks)           *)
ExecReturns_sticky ==
    /\ pc = "await"
    /\ \E code \in ExitCodes :
         /\ calls' = [calls EXCEPT ![Len(calls)].status = "returned",
                                   ![Len(calls)].code = code]
         /\ IF keepOnExit(code) \/ Len(result) > 0
            THEN /\ log' = Append(log, Info("  ", tasks[idx].task, ": changed, included"))
                 /\ result' = Append(result, idx)
            ELSE /\ log' = Append(log, Info("  ", tasks[idx].task, ": unchanged, skipped"))
                 /\ result' = result
    /\ idx' = idx + 1
    /\ pc' = "loop"
    /\ UNCHANGED <<raw, parsed, ppc, tasks, baseRef>>
    /\ UNCHANGED outerVars

(* exec.exec resolves with an exit code *)
ExecReturns ==
    /\ pc = "await"
    /\ \E code \in ExitCodes :
         /\ calls' = [calls EXCEPT ![Len(calls)].status = "returned",
                                   ![Len(calls)].code = code]
         /\ IF keepOnExit(code)
            THEN /\ log' = Append(log, Info("  ", tasks[idx].task, ": changed, included"))
                 /\ result' = Append(result, idx)
            ELSE /\ log' = Append(log, Info("  ", tasks[idx].task, ": unchanged, skipped"))
                 /\ result' = result
    /\ idx' = idx + 1
    /\ pc' = "loop"
    /\ UNCHANGED <<raw, parsed, ppc, tasks, baseRef>>
    /\ UNCHANGED outerVars

(* mutant of ExecThrows: no catch, the fault leaves the function *)
ExecThrows_propagates ==
    /\ pc = "await"
    /\ calls' = [calls EXCEPT ![Len(calls)].status = "threw"]
    /\ pc' = "failed"
    /\ UNCHANGED <<raw, parsed, ppc, tasks, baseRef, idx, result, log>>
    /\ UNCHANGED outerVars

(* mutant of ExecThrows: the query is tried again *)
ExecThrows_retries ==
    /\ pc = "await"
    /\ calls' = [calls EXCEPT ![Len(calls)].status = "threw"]
    /\ log' = Append(log, Warning("  ", tasks[idx].task, ": git diff failed, retrying"))
    /\ pc' = "loop"
    /\ UNCHANGED <<raw, parsed, ppc, tasks, baseRef, idx, result>>
    /\ UNCHANGED outerVars

(* mutant of ExecThrows: the catch block reports with core.info *)
ExecThrows_logsInfo ==
    /\ pc = "await"
    /\ calls' = [calls EXCEPT ![Len(calls)].status = "threw"]
    /\ log' = Append(log, Info("  ", tasks[idx].task,
                               ": git diff failed, included (fail-open)"))
    /\ result' = Append(result, idx)
    /\ idx' = idx + 1
    /\ pc' = "loop"
    /\ UNCHANGED <<raw, parsed, ppc, tasks, baseRef>>
    /\ UNCHANGED outerVars

(* exec.exec rejects: the catch block warns and pushes the task *)
ExecThrows ==
    /\ pc = "await"
    /\ calls' = [calls EXCEPT ![Len(calls)].status = "threw"]
    /\ log' = Append(log, Warning("  ", tasks[idx].task,
                                  ": git diff failed, included (fail-open)"))
    /\ result' = Append(result, idx)
    /\ idx' = idx + 1
    /\ pc' = "loop"
    /\ UNCHANGED <<raw, parsed, ppc, tasks, baseRef>>
    /\ UNCHANGED outerVars

(* return result *)
FilterReturn ==
    /\ pc = "loop"
    /\ idx > Len(tasks)
    /\ pc' = "done"
    /\ UNCHANGED <<raw, parsed, ppc, tasks, baseRef, idx, result, calls, log>>
    /\ UNCHANGED outerVars

(* the array filterByChangedSources returns *)
ResultTasks == [k \in 1..Len(result) |-> tasks[result[k]]]

NextFilter ==
    \/ FilterEnter
    \/ TaskNoSources
    \/ ExecGit
    \/ ExecReturns
    \/ ExecThrows
    \/ FilterReturn

SpecFilter == InitFilter /\ [][NextFilter]_vars

-----------------------------------------------------------------------------
(* parseMiseTasks applied to every input *)

filterIdle == /\ tasks = <<>>
              /\ baseRef = <<>>
              /\ pc = "idle"
              /\ idx = 1
              /\ result = <<>>
              /\ calls = <<>>
              /\ log = <<>>

InitParse ==
    /\ filterIdle
    /\ outerIdle
    /\ raw \in RawLists
    /\ parsed = <<>>
    /\ ppc = "call"

Parse ==
    /\ ppc = "call"
    /\ parsed' = parseMiseTasks(raw)
    /\ ppc' = "done"
    /\ UNCHANGED <<raw, tasks, baseRef, pc, idx, result, calls, log>>
    /\ UNCHANGED outerVars

NextParse == Parse

SpecParse == InitParse /\ [][NextParse]_vars

-----------------------------------------------------------------------------
(* Vocabulary of the properties of filterByChangedSources *)

Positions == 1..Len(tasks)

(* the exec.exec invocations made for the task at position i *)
CallsFor(i) == {k \in 1..Len(calls) : calls[k].idx = i}

(* the loop has finished with the task at position i *)
Processed(i) == pc \in {"loop", "await", "done"} /\ i < idx

(* the task at position i has been pushed to result *)
Kept(i) == \E k \in 1..Len(result) : result[k] = i

Returned(k, codes) == calls[k].status = "returned" /\ calls[k].code \in codes
Threw(k) == calls[k].status = "threw"

(* the policy: no sources, or a query that returned non-zero or threw *)
ShouldKeep(i) ==
    \/ Len(tasks[i].sources) = 0
    \/ \E k \in CallsFor(i) : Threw(k) \/ Returned(k, ExitCodes \ {0})

(* the task at position i was handled by the rules of a fault-free pass *)
HandledAsUsual(i) ==
    IF Len(tasks[i].sources) = 0
    THEN /\ CallsFor(i) = {}
         /\ Kept(i)
         /\ log[i + 1].level = "info"
    ELSE /\ Cardinality(CallsFor(i)) = 1
         /\ \A k \in CallsFor(i) :
              /\ calls[k].status # "pending"
              /\ calls[k].args = gitArgs(baseRef, tasks[i])
              /\ Kept(i) <=> (Threw(k) \/ Returned(k, ExitCodes \ {0}))
              /\ log[i + 1].level = IF Threw(k) THEN "warning" ELSE "info"

(* the tasks of positions 1..n that the policy keeps, in input order *)
RECURSIVE ExpectedTasks(_)
ExpectedTasks(n) ==
    IF n = 0 THEN <<>>
    ELSE IF ShouldKeep(n) THEN Append(ExpectedTasks(n - 1), tasks[n])
    ELSE ExpectedTasks(n - 1)

(* C1: when filterByChangedSources returns, result is exactly the         *)
(* subsequence of the input, in input order, of the tasks with no sources *)
(* or whose query returned non-zero or threw; tasks whose query returned  *)
(* 0 are dropped, nothing is added and nothing is duplicated.             *)
C1_ExactSubsequence ==
    pc = "done" =>
        /\ \A k \in 1..Len(result) : result[k] \in Positions
        /\ \A k, l \in 1..Len(result) : k < l => result[k] < result[l]
        /\ \A i \in Positions : Kept(i) <=> ShouldKeep(i)
        /\ \A i \in Positions :
             (\E k \in CallsFor(i) : Returned(k, {0})) => ~Kept(i)
        /\ ResultTasks = ExpectedTasks(Len(tasks))

(* a pass of three queries that returned 0, returned 128 and threw *)
C1_Witness ==
    /\ pc = "done"
    /\ Len(calls) = 3
    /\ \E k \in 1..3 : Returned(k, {0})
    /\ \E k \in 1..3 : Returned(k, {128})
    /\ \E k \in 1..3 : Threw(k)
    /\ Len(result) = 2

(* C2: when the query of a task throws, the task is kept, a warning is    *)
(* logged for it, the fault does not leave the function, and every later  *)
(* task is still handled as in a pass without a fault.                    *)
C2_FailOpen ==
    /\ pc # "failed"
    /\ \A k \in 1..Len(calls) :
         Threw(k) =>
            LET i == calls[k].idx
            IN /\ Kept(i)
               /\ log[i + 1].level = "warning"
               /\ log[i + 1].msg[2] = tasks[i].task
               /\ pc = "done" =>
                    /\ Len(log) = 1 + Len(tasks)
                    /\ \A j \in (i + 1)..Len(tasks) : HandledAsUsual(j)

(* the first query threw; a later task was queried and dropped, and a     *)
(* still later task without sources was passed through                    *)
C2_Witness ==
    /\ pc = "done"
    /\ Len(tasks) = 3
    /\ Len(calls) = 2
    /\ Threw(1)
    /\ Returned(2, {0})
    /\ calls[1].idx = 1
    /\ result = <<1, 3>>

(* C3: a task with empty sources is retained whatever baseRef is, and no  *)
(* query is ever issued for it.                                           *)
C3_NoSourcesPassThrough ==
    \A i \in Positions :
        Len(tasks[i].sources) = 0 =>
            /\ CallsFor(i) = {}
            /\ Processed(i) => Kept(i)
            /\ pc = "done" => Processed(i)

(* a task without sources kept between two tasks whose queries said       *)
(* unchanged, under a non-empty baseRef                                   *)
C3_Witness ==
    /\ pc = "done"
    /\ baseRef # <<>>
    /\ Len(tasks) = 3
    /\ Len(tasks[2].sources) = 0
    /\ result = <<2>>
    /\ Len(calls) = 2

(* C4: queries are issued one at a time in input order: at most one is    *)
(* outstanding, a query starts only when every earlier one has returned   *)
(* or thrown, and each task with sources gets exactly one attempt,        *)
(* whatever the outcome.                                                  *)
C4_SequentialSingleAttempt ==
    /\ Cardinality(Pending) <= 1
    /\ \A k \in Pending : pc = "await" /\ calls[k].idx = idx /\ k = Len(calls)
    /\ \A k, l \in 1..Len(calls) :
         k < l => calls[k].idx < calls[l].idx /\ calls[k].status # "pending"
    /\ \A i \in Positions : Cardinality(CallsFor(i)) <= 1
    /\ pc = "done" =>
         \A i \in Positions :
            Len(tasks[i].sources) > 0 =>
                /\ Cardinality(CallsFor(i)) = 1
                /\ \A k \in CallsFor(i) : calls[k].status # "pending"

(* the third query is outstanding after one that threw and one that       *)
(* returned                                                               *)
C4_Witness ==
    /\ pc = "await"
    /\ Len(calls) = 3
    /\ Threw(1)
    /\ Returned(2, ExitCodes)
    /\ Pending = {3}

-----------------------------------------------------------------------------
(* Vocabulary of the properties of parseMiseTasks *)

Parsed == IF ppc = "done" THEN 1..Len(parsed) ELSE {}

(* the name begins with the two-character monorepo marker *)
HasMarker(n) == Len(n) >= 2 /\ n[1] = "/" /\ n[2] = "/"

HasNoColon(s) == \A k \in 1..Len(s) : s[k] # ":"

(* the name is the marker, q, a colon and l, and that colon is the first  *)
(* one after the marker                                                   *)
SplitsAtFirstColon(n, q, l) == n = Marker \o q \o <<":">> \o l /\ HasNoColon(q)

(* the texts that follow the marker in the name, from its first character *)
AfterMarker(n) == {SubSeq(n, 3, k) : k \in 2..Len(n)}

(* the path qualifier of a name that has the marker: the text between the *)
(* marker and the first colon, or all that follows the marker when there  *)
(* is no colon                                                            *)
QualifierText(n) ==
    CHOOSE q \in AfterMarker(n) :
        /\ HasNoColon(q)
        /\ Len(q) = Len(n) - 2 \/ n[3 + Len(q)] = ":"

IsSuffix(s, n) == Len(s) <= Len(n) /\ SubSeq(n, Len(n) - Len(s) + 1, Len(n)) = s

(* "//" occurs in s at 1-based position k *)
SlashSlashAt(s, k) == k + 1 <= Len(s) /\ s[k] = "/" /\ s[k + 1] = "/"

(* s contains a //path: qualifier: a "//" with a colon somewhere after it *)
ContainsQualifier(s) ==
    \E k \in 1..Len(s) :
        SlashSlashAt(s, k) /\ \E j \in (k + 2)..Len(s) : s[j] = ":"

LeadingSlash(s) == Len(s) > 0 /\ s[1] = "/"
TrailingSlash(s) == Len(s) > 0 /\ s[Len(s)] = "/"

(* C5: parseMiseTasks returns one task per raw record, in the same order: *)
(* the lengths are equal and the i-th task carries the i-th raw name      *)
(* unchanged in its task field (its localName is a tail of that name).    *)
C5_TotalOrderPreserving ==
    ppc = "done" =>
        /\ Len(parsed) = Len(raw)
        /\ \A i \in 1..Len(raw) :
             /\ parsed[i].task = raw[i].name
             /\ IsSuffix(parsed[i].localName, raw[i].name)

(* three different records, one of them with an empty localName *)
C5_Witness ==
    /\ ppc = "done"
    /\ Len(parsed) = 3
    /\ parsed[1].task # parsed[2].task
    /\ parsed[2].task # parsed[3].task
    /\ parsed[3].localName = <<>>
    /\ parsed[1].localName # <<>>

(* C6 as stated: for every name with the marker and a colon after it,     *)
(* project is the text before the first colon and localName is all that   *)
(* follows it.                                                            *)
C6_Original ==
    \A i \in Parsed :
        (HasMarker(raw[i].name) /\ ~HasNoColon(SubSeq(raw[i].name, 3, Len(raw[i].name))))
            => SplitsAtFirstColon(raw[i].name, parsed[i].project, parsed[i].localName)

(* C6 amended: for every name with the marker and a colon after it, the   *)
(* name is split at the first colon only: localName is all that follows   *)
(* it, and project is the text before it, or "." when that text is empty. *)
C6_FirstColonSplit ==
    \A i \in Parsed :
        (HasMarker(raw[i].name) /\ ~HasNoColon(SubSeq(raw[i].name, 3, Len(raw[i].name))))
            => \E q \in AfterMarker(raw[i].name) :
                 /\ SplitsAtFirstColon(raw[i].name, q, parsed[i].localName)
                 /\ parsed[i].project = IF q = <<>> THEN Root ELSE q

(* a name with a second colon: the local name keeps it *)
C6_Witness ==
    \E i \in Parsed :
        /\ raw[i].name = <<"/", "/", "a", ":", ":">>
        /\ parsed[i].project = <<"a">>
        /\ parsed[i].localName = <<":">>

(* C7: a name without the marker gets project "." and itself as           *)
(* localName; a name of the form //:x gets project "." and localName x.   *)
C7_RootProject ==
    \A i \in Parsed :
        LET n == raw[i].name
        IN /\ ~HasMarker(n) =>
                parsed[i].project = Root /\ parsed[i].localName = n
           /\ (HasMarker(n) /\ Len(n) >= 3 /\ n[3] = ":") =>
                /\ parsed[i].project = Root
                /\ parsed[i].localName = SubSeq(n, 4, Len(n))

(* a list with a plain name and a root-qualified name *)
C7_Witness ==
    /\ ppc = "done"
    /\ \E i \in Parsed :
         raw[i].name = <<"/", "/", ":", "a">> /\ parsed[i].localName = <<"a">>
    /\ \E i \in Parsed :
         raw[i].name = <<"a">> /\ parsed[i].localName = <<"a">>

(* C8 as stated: project is "." if and only if the name has no path       *)
(* qualifier or an empty one.                                             *)
C8_Original ==
    \A i \in Parsed :
        parsed[i].project = Root
            <=> (~HasMarker(raw[i].name) \/ QualifierText(raw[i].name) = <<>>)

(* C8 amended: project is "." if and only if the name has no marker, or   *)
(* its path qualifier is empty or is "." itself.                          *)
C8_RootIff ==
    \A i \in Parsed :
        parsed[i].project = Root
            <=> (~HasMarker(raw[i].name) \/ QualifierText(raw[i].name) \in {<<>>, Root})

(* a name whose qualifier is "." *)
C8_Witness ==
    \E i \in Parsed :
        /\ raw[i].name = <<"/", "/", ".", ":", "a">>
        /\ parsed[i].project = Root

C10_Original ==
    \A i \in Parsed :
        \/ parsed[i].project = Root
        \/ /\ parsed[i].project # <<>>
           /\ ~LeadingSlash(parsed[i].project)
           /\ ~TrailingSlash(parsed[i].project)

(* C10 amended: project is never empty; it is "." or the path qualifier   *)
(* of the name verbatim, so it has a leading (trailing) slash exactly     *)
(* when the qualifier written in the name has one.                        *)
C10_ProjectShape ==
    \A i \in Parsed :
        LET n == raw[i].name
            p == parsed[i].project
        IN /\ p # <<>>
           /\ \/ p = Root
              \/ /\ HasMarker(n)
                 /\ p = QualifierText(n)
                 /\ LeadingSlash(p) <=> n[3] = "/"
                 /\ TrailingSlash(p) <=> n[2 + Len(p)] = "/"

(* a qualifier written with a leading and a trailing slash *)
C10_Witness ==
    \E i \in Parsed :
        /\ raw[i].name = <<"/", "/", "/", "a", "/">>
        /\ parsed[i].project = <<"/", "a", "/">>

(* C11: the sources of a parsed task is always a sequence of globs: the   *)
(* empty sequence when the raw record has no sources (absent or null),    *)
(* and otherwise the raw globs, as many, the same and in the same order.  *)
C11_SourcesNeverNull ==
    \A i \in Parsed :
        /\ parsed[i].sources \in Seq({Glob1, Glob2})
        /\ raw[i].sources.isNull => parsed[i].sources = <<>>
        /\ ~raw[i].sources.isNull =>
             /\ Len(parsed[i].sources) = Len(raw[i].sources.globs)
             /\ \A k \in 1..Len(raw[i].sources.globs) :
                  parsed[i].sources[k] = raw[i].sources.globs[k]

(* a record without sources next to one with two globs *)
C11_Witness ==
    \E i, j \in Parsed :
        /\ raw[i].sources.isNull
        /\ parsed[i].sources = <<>>
        /\ parsed[j].sources = <<Glob1, Glob2>>

-----------------------------------------------------------------------------
(* filterByPrefix *)

(* mutant of filterByPrefix: the qualified name is matched *)
filterByPrefix_qualified(ts, pre) ==
    LET hit(t) == startsWith(t.task, pre)
    IN IF pre = <<>> THEN ts ELSE SelectSeq(ts, hit)

(* if (prefix === '') return tasks; return tasks.filter(...) *)
filterByPrefix(ts, pre) ==
    LET hit(t) == startsWith(t.localName, pre)
    IN IF pre = <<>> THEN ts ELSE SelectSeq(ts, hit)

-----------------------------------------------------------------------------
(* groupByProject *)

(* mutant of Delim: the separator without its spaces *)
Delim_noSpaces == <<":", ":", ":">>

(* the separator of taskList.join *)
Delim == <<" ", ":", ":", ":", " ">>

(* Array.prototype.join *)
RECURSIVE join(_, _)
join(list, sep) ==
    IF Len(list) = 0 THEN <<>>
    ELSE IF Len(list) = 1 THEN list[1]
    ELSE join(SubSeq(list, 1, Len(list) - 1), sep) \o sep \o list[Len(list)]

(* mutant of mapAdd: a new project is put in front of the others *)
mapAdd_inFront(m, t) ==
    IF \E k \in 1..Len(m) : m[k].project = t.project
    THEN LET k == CHOOSE k \in 1..Len(m) : m[k].project = t.project
         IN [m EXCEPT ![k].taskList = Append(@, t.task)]
    ELSE <<[project |-> t.project, taskList |-> <<t.task>>]>> \o m

(* mutant of mapAdd: the local name is collected *)
mapAdd_localName(m, t) ==
    IF \E k \in 1..Len(m) : m[k].project = t.project
    THEN LET k == CHOOSE k \in 1..Len(m) : m[k].project = t.project
         IN [m EXCEPT ![k].taskList = Append(@, t.localName)]
    ELSE Append(m, [project |-> t.project, taskList |-> <<t.localName>>])

(* one turn of the first loop: the Map, as its entries in insertion order *)
mapAdd(m, t) ==
    IF \E k \in 1..Len(m) : m[k].project = t.project
    THEN LET k == CHOOSE k \in 1..Len(m) : m[k].project = t.project
         IN [m EXCEPT ![k].taskList = Append(@, t.task)]
    ELSE Append(m, [project |-> t.project, taskList |-> <<t.task>>])

(* the Map after the first n tasks *)
RECURSIVE buildMap(_, _)
buildMap(ts, n) == IF n = 0 THEN <<>> ELSE mapAdd(buildMap(ts, n - 1), ts[n])

(* the second loop: one ProjectGroup per Map entry, in Map order *)
groupByProject(ts) ==
    LET m == buildMap(ts, Len(ts))
    IN [k \in 1..Len(m) |->
           [project |-> m[k].project, tasks |-> join(m[k].taskList, Delim)]]

-----------------------------------------------------------------------------
(* parseMiseTasks, filterByPrefix and groupByProject applied in turn *)

NoSourcesRaw(n) == [name |-> n, sources |-> Sources(<<>>)]

(* names that differ in project, in local name and in case, a qualified   *)
(* name without a colon and the bare marker                               *)
PipeRaw ==
    { NoSourcesRaw(<<"a", "b">>),
      NoSourcesRaw(<<"A", "b">>),
      NoSourcesRaw(<<"/", "/", "p", ":", "a", "b">>),
      NoSourcesRaw(<<"/", "/", "a", ":", "b">>),
      NoSourcesRaw(<<"/", "/", "p">>),
      NoSourcesRaw(<<"/", "/", ":", "a">>),
      NoSourcesRaw(<<"/", "/">>) }

Prefixes == {<<>>, <<"a">>, <<"a", "b">>, <<"A">>, <<"/">>}

InitPipe ==
    /\ filterIdle
    /\ raw \in SeqsUpTo(PipeRaw, MaxRaw)
    /\ parsed = <<>>
    /\ ppc = "call"
    /\ prefix \in Prefixes
    /\ matched = <<>>
    /\ projects = <<>>
    /\ rpc = "idle"
    /\ listing = NoListing
    /\ filtered = <<>>
    /\ outputs = <<>>
    /\ failures = <<>>
    /\ thrown = NoFault
    /\ prev = <<>>

MatchPrefix ==
    /\ ppc = "done"
    /\ matched' = filterByPrefix(parsed, prefix)
    /\ ppc' = "matched"
    /\ UNCHANGED <<raw, parsed, tasks, baseRef, pc, idx, result, calls, log>>
    /\ UNCHANGED <<prefix, projects, rpc, listing, filtered, outputs,
                   failures, thrown, prev>>

Group ==
    /\ ppc = "matched"
    /\ projects' = groupByProject(matched)
    /\ ppc' = "grouped"
    /\ UNCHANGED <<raw, parsed, tasks, baseRef, pc, idx, result, calls, log>>
    /\ UNCHANGED <<prefix, matched, rpc, listing, filtered, outputs,
                   failures, thrown, prev>>

NextPipe ==
    \/ Parse
    \/ MatchPrefix
    \/ Group

SpecPipe == InitPipe /\ [][NextPipe]_vars

-----------------------------------------------------------------------------
(* Vocabulary of the properties of filterByPrefix and groupByProject *)

(* p is a literal, case-sensitive prefix of s *)
HasPrefix(s, p) == Len(s) >= Len(p) /\ \A k \in 1..Len(p) : s[k] = p[k]

(* the tasks among the first n of ts whose local name has the prefix *)
RECURSIVE ExpectedMatch(_, _, _)
ExpectedMatch(ts, pre, n) ==
    IF n = 0 THEN <<>>
    ELSE IF HasPrefix(ts[n].localName, pre)
         THEN Append(ExpectedMatch(ts, pre, n - 1), ts[n])
         ELSE ExpectedMatch(ts, pre, n - 1)

IsMatched == ppc \in {"matched", "grouped"}

(* C12: with the empty prefix filterByPrefix returns its input; with any  *)
(* other prefix it returns, in input order, exactly the tasks whose local *)
(* name starts with the prefix, literally and with case; nothing is added *)
(* or removed as a duplicate.                                             *)
C12_PrefixFilter ==
    IsMatched =>
        /\ prefix = <<>> => matched = parsed
        /\ prefix # <<>> => matched = ExpectedMatch(parsed, prefix, Len(parsed))

(* prefix "a": a task `ab` listed twice is kept twice, while a task whose *)
(* project and qualified name start with the prefix, but whose local name *)
(* does not, is dropped                                                   *)
C12_Witness ==
    /\ IsMatched
    /\ prefix = <<"a">>
    /\ Len(parsed) = 3
    /\ parsed[1].task = <<"a", "b">>
    /\ parsed[2].task = <<"/", "/", "a", ":", "b">>
    /\ parsed[3].task = <<"a", "b">>
    /\ Len(matched) = 2

(* position in ts of the first task of project p *)
FirstOf(ts, p) ==
    CHOOSE i \in 1..Len(ts) :
        ts[i].project = p /\ \A j \in 1..(i - 1) : ts[j].project # p

(* the qualified names of the tasks of project p among the first n of ts *)
RECURSIVE NamesOf(_, _, _)
NamesOf(ts, p, n) ==
    IF n = 0 THEN <<>>
    ELSE IF ts[n].project = p THEN Append(NamesOf(ts, p, n - 1), ts[n].task)
         ELSE NamesOf(ts, p, n - 1)

(* the strings of list with " ::: " between neighbours *)
RECURSIVE Joined(_)
Joined(list) ==
    IF list = <<>> THEN <<>>
    ELSE IF Len(list) = 1 THEN list[1]
    ELSE list[1] \o <<" ", ":", ":", ":", " ">> \o Joined(Tail(list))

(* C13: groupByProject gives one group per distinct project, in order of  *)
(* first appearance; the tasks string of a group is the qualified names   *)
(* of the tasks of that project, in input order, joined by " ::: "; the   *)
(* empty input gives the empty output.                                    *)
C13_GroupByProject ==
    ppc = "grouped" =>
        /\ matched = <<>> => projects = <<>>
        /\ \A i \in 1..Len(matched) :
             \E g \in 1..Len(projects) : projects[g].project = matched[i].project
        /\ \A g, h \in 1..Len(projects) :
             g < h => /\ projects[g].project # projects[h].project
                      /\ FirstOf(matched, projects[g].project)
                           < FirstOf(matched, projects[h].project)
        /\ \A g \in 1..Len(projects) :
             /\ \E i \in 1..Len(matched) : matched[i].project = projects[g].project
             /\ projects[g].tasks
                  = Joined(NamesOf(matched, projects[g].project, Len(matched)))

(* two projects, the first with two tasks that are not neighbours *)
C13_Witness ==
    /\ ppc = "grouped"
    /\ Len(matched) = 3
    /\ Len(projects) = 2
    /\ projects[1].project = <<"p">>
    /\ projects[2].project = Root
    /\ matched[2].project = Root

(* a qualified name with a path segment and no colon after it *)
Degenerate(n) == HasMarker(n) /\ Len(n) > 2 /\ HasNoColon(SubSeq(n, 3, Len(n)))

(* as NamesOf, with an empty segment for every task without a local name *)
RECURSIVE SegmentsOf(_, _, _)
SegmentsOf(ts, p, n) ==
    IF n = 0 THEN <<>>
    ELSE IF ts[n].project = p
         THEN Append(SegmentsOf(ts, p, n - 1),
                     IF ts[n].localName = <<>> THEN <<>> ELSE ts[n].task)
         ELSE SegmentsOf(ts, p, n - 1)

(* sub occurs in s *)
Occurs(sub, s) ==
    \E k \in 0..(Len(s) - Len(sub)) : SubSeq(s, k + 1, k + Len(sub)) = sub

(* what C19 says of parsing and of the prefix filter *)
DegenerateParsedAndFiltered(i) ==
    /\ parsed[i].project = SubSeq(raw[i].name, 3, Len(raw[i].name))
    /\ parsed[i].localName = <<>>
    /\ prefix # <<>> => \A k \in 1..Len(matched) : matched[k] # parsed[i]
    /\ prefix = <<>> =>
         \E g \in 1..Len(projects) : projects[g].project = parsed[i].project

(* C19 as stated: a qualified name without a colon gets the remainder as  *)
(* project and an empty localName, is dropped by every non-empty prefix,  *)
(* and with the empty prefix is grouped with an EMPTY segment in the      *)
(* tasks string of its group.                                             *)
C19_Original ==
    ppc = "grouped" =>
        \A i \in 1..Len(raw) :
            Degenerate(raw[i].name) =>
                /\ DegenerateParsedAndFiltered(i)
                /\ prefix = <<>> =>
                     \A g \in 1..Len(projects) :
                        projects[g].project = parsed[i].project =>
                            projects[g].tasks
                              = Joined(SegmentsOf(matched, parsed[i].project, Len(matched)))

(* C19 amended: ... and with the empty prefix is grouped with its full    *)
(* qualified name as its segment in the tasks string of its group.        *)
C19_DegenerateName ==
    ppc = "grouped" =>
        \A i \in 1..Len(raw) :
            Degenerate(raw[i].name) =>
                /\ DegenerateParsedAndFiltered(i)
                /\ prefix = <<>> =>
                     \A g \in 1..Len(projects) :
                        projects[g].project = parsed[i].project =>
                            /\ projects[g].tasks
                                 = Joined(NamesOf(matched, parsed[i].project, Len(matched)))
                            /\ Occurs(raw[i].name, projects[g].tasks)

(* `//p` grouped after `//p:ab` under the empty prefix *)
C19_Witness ==
    /\ ppc = "grouped"
    /\ prefix = <<>>
    /\ raw = <<NoSourcesRaw(<<"/", "/", "p", ":", "a", "b">>),
               NoSourcesRaw(<<"/", "/", "p">>)>>
    /\ Len(projects) = 1
    /\ projects[1].tasks = <<"/", "/", "p", ":", "a", "b", " ", ":", ":", ":", " ",
                             "/", "/", "p">>

-----------------------------------------------------------------------------
(* Properties of the query filterByChangedSources issues *)

(* the arguments of call k that follow the five fixed ones *)
PathspecsOf(k) == SubSeq(calls[k].args, 6, Len(calls[k].args))

(* the task call k was made for *)
TaskOf(k) == tasks[calls[k].idx]

(* the path a glob of task t is localized to *)
LocalizedGlob(t, glob) ==
    IF t.project = <<".">> THEN glob ELSE t.project \o <<"/">> \o glob

(* C14 as stated: one pathspec per source glob, in source order: the glob *)
(* unmodified for project ".", the glob prefixed with project + "/"       *)
(* otherwise.                                                             *)
C14_Original ==
    \A k \in 1..Len(calls) :
        /\ Len(PathspecsOf(k)) = Len(TaskOf(k).sources)
        /\ \A g \in 1..Len(TaskOf(k).sources) :
             PathspecsOf(k)[g] = LocalizedGlob(TaskOf(k), TaskOf(k).sources[g])

(* C14 amended: one pathspec per source glob, in source order: the        *)
(* pathspec is ':(glob)' followed by the glob for project ".", and        *)
(* ':(glob)' followed by project + "/" + glob otherwise.                  *)
C14_Pathspecs ==
    \A k \in 1..Len(calls) :
        /\ Len(PathspecsOf(k)) = Len(TaskOf(k).sources)
        /\ \A g \in 1..Len(TaskOf(k).sources) :
             PathspecsOf(k)[g]
               = <<":", "(", "g", "l", "o", "b", ")">>
                    \o LocalizedGlob(TaskOf(k), TaskOf(k).sources[g])

(* a task of project `a` with two globs has been queried *)
C14_Witness ==
    \E k \in 1..Len(calls) :
        /\ TaskOf(k).project = <<"a">>
        /\ PathspecsOf(k)
             = << <<":", "(", "g", "l", "o", "b", ")", "a", "/", "s", "*">>,
                  <<":", "(", "g", "l", "o", "b", ")", "a", "/", "d">> >>

(* C15: the one query of a task with sources is `git` with the arguments  *)
(* diff, --quiet, baseRef, HEAD, -- and then all the pathspecs of that    *)
(* task, in source order, in the same invocation; the pathspecs of        *)
(* different tasks are never combined in one query.                       *)
C15_GitInvocation ==
    /\ \A k \in 1..Len(calls) :
         /\ calls[k].cmd = <<"g", "i", "t">>
         /\ Len(TaskOf(k).sources) > 0
         /\ Len(calls[k].args) = 5 + Len(TaskOf(k).sources)
         /\ SubSeq(calls[k].args, 1, 5)
              = << <<"d", "i", "f", "f">>,
                   <<"-", "-", "q", "u", "i", "e", "t">>,
                   baseRef,
                   <<"H", "E", "A", "D">>,
                   <<"-", "-">> >>
         /\ PathspecsOf(k)
              = [g \in 1..Len(TaskOf(k).sources) |->
                    <<":", "(", "g", "l", "o", "b", ")">>
                       \o LocalizedGlob(TaskOf(k), TaskOf(k).sources[g])]
    /\ \A i \in Positions :
         (Processed(i) /\ Len(tasks[i].sources) > 0)
            => Cardinality(CallsFor(i)) = 1

(* a root task with one glob and a project task with two, each queried on *)
(* its own under a non-empty baseRef                                      *)
C15_Witness ==
    /\ pc = "done"
    /\ baseRef # <<>>
    /\ Len(calls) = 2
    /\ TaskOf(1).project = <<".">>
    /\ TaskOf(2).project = <<"a">>
    /\ Len(calls[1].args) = 6
    /\ Len(calls[2].args) = 7

-----------------------------------------------------------------------------
(* Two passes of filterByChangedSources, one after the other, with the    *)
(* same baseRef                                                           *)

PassPool ==
    { ParseOne([name |-> <<"a">>, sources |-> Sources(<<>>)]),
      ParseOne([name |-> <<"a">>, sources |-> Sources(<<Glob1>>)]),
      ParseOne([name |-> <<"/", "/", "a", ":", "a">>, sources |-> Sources(<<Glob1>>)]) }

PassLists == SeqsUpTo(PassPool, MaxPassTasks)

InitPasses ==
    /\ parseIdle
    /\ outerIdle
    /\ tasks \in PassLists
    /\ baseRef = <<"a", "b", "c", "1", "2", "3">>
    /\ pc = "enter"
    /\ idx = 1
    /\ result = <<>>
    /\ calls = <<>>
    /\ log = <<>>

(* the caller keeps what the first pass returned and calls again *)
CallAgain ==
    /\ pc = "done"
    /\ prev = <<>>
    /\ prev' = <<[tasks |-> tasks, result |-> result, calls |-> calls]>>
    /\ tasks' \in PassLists
    /\ pc' = "enter"
    /\ idx' = 1
    /\ result' = <<>>
    /\ calls' = <<>>
    /\ UNCHANGED <<raw, parsed, ppc, baseRef, log>>
    /\ UNCHANGED <<prefix, matched, projects, rpc, listing, filtered, outputs,
                   failures, thrown>>

NextPasses ==
    \/ FilterEnter
    \/ TaskNoSources
    \/ ExecGit
    \/ ExecReturns
    \/ ExecThrows
    \/ FilterReturn
    \/ CallAgain

SpecPasses == InitPasses /\ [][NextPasses]_vars

(* the outcome of the query made in pass p for its task at position i *)
OutcomeIn(p, i) ==
    IF \E k \in 1..Len(p.calls) : p.calls[k].idx = i
    THEN LET k == CHOOSE k \in 1..Len(p.calls) : p.calls[k].idx = i
         IN [status |-> p.calls[k].status, code |-> p.calls[k].code]
    ELSE [status |-> "none", code |-> 0]

KeptIn(p, i) == \E k \in 1..Len(p.result) : p.result[k] = i

ThisPass == [tasks |-> tasks, result |-> result, calls |-> calls]

(* the tasks at position i of pass p and at position j of pass q have the *)
(* same project, the same sources and the same query outcome              *)
SameInputs(p, i, q, j) ==
    /\ p.tasks[i].project = q.tasks[j].project
    /\ p.tasks[i].sources = q.tasks[j].sources
    /\ OutcomeIn(p, i) = OutcomeIn(q, j)

(* C20: a task with the same project, the same sources and the same query *)
(* outcome is kept in both passes or dropped in both, whatever the other  *)
(* tasks and their outcomes are and wherever the task sits in its list.   *)
C20_IndependentDecision ==
    (pc = "done" /\ prev # <<>>) =>
        \A p, q \in {prev[1], ThisPass} :
            \A i \in 1..Len(p.tasks), j \in 1..Len(q.tasks) :
                SameInputs(p, i, q, j) => (KeptIn(p, i) <=> KeptIn(q, j))

(* a task dropped alone in the first pass is dropped again in the second, *)
(* where it comes after a task that was kept because its query threw      *)
C20_Witness ==
    /\ pc = "done"
    /\ prev # <<>>
    /\ Len(prev[1].tasks) = 1
    /\ Len(tasks) = 2
    /\ SameInputs(prev[1], 1, ThisPass, 2)
    /\ OutcomeIn(ThisPass, 2) = [status |-> "returned", code |-> 0]
    /\ OutcomeIn(ThisPass, 1).status = "threw"
    /\ result = <<1>>
    /\ prev[1].result = <<>>

-----------------------------------------------------------------------------
(* JSON.stringify of the ProjectGroup array *)

(* a character inside a JSON string *)
jsonChar(c) ==
    IF c = "\"" THEN <<"\\", "\"">>
    ELSE IF c = "\\" THEN <<"\\", "\\">>
    ELSE <<c>>

RECURSIVE jsonChars(_)
jsonChars(str) ==
    IF str = <<>> THEN <<>> ELSE jsonChar(str[1]) \o jsonChars(Tail(str))

jsonString(str) == <<"\"">> \o jsonChars(str) \o <<"\"">>

(* {"project":"...","tasks":"..."} *)
jsonGroup(g) ==
    <<"{">> \o jsonString(<<"p", "r", "o", "j", "e", "c", "t">>) \o <<":">>
        \o jsonString(g.project) \o <<",">>
        \o jsonString(<<"t", "a", "s", "k", "s">>) \o <<":">>
        \o jsonString(g.tasks) \o <<"}">>

jsonStringify(groups) ==
    <<"[">> \o join([k \in 1..Len(groups) |-> jsonGroup(groups[k])], <<",">>)
        \o <<"]">>

-----------------------------------------------------------------------------
(* run and execMiseTasksLs *)

(* what `mise tasks ls --all --json` can print when it exits 0: a JSON    *)
(* array of tasks, text that is not JSON, JSON that is not an array       *)
StdoutKinds == {"tasks", "not json", "null"}

RunRaw ==
    { [name |-> <<"a", "b">>, sources |-> Sources(<<Glob1>>)],
      [name |-> <<"/", "/", "p", ":", "a", "b">>, sources |-> Sources(<<Glob1, Glob2>>)],
      [name |-> <<"/", "/", "p", ":", "b">>, sources |-> NullSources],
      [name |-> <<"b">>, sources |-> Sources(<<Glob1>>)] }

RunRawLists == SeqsUpTo(RunRaw, MaxRunTasks)

RunPrefixes == {<<>>, <<"a">>, <<"z">>}

(* what core.getInput can throw: an Error and a value that is no Error *)
InputFaults == { [kind |-> "Error", message |-> "input error"],
                 [kind |-> "other", message |-> "string error"] }

SpawnFault == [kind |-> "Error", message |-> "Unable to locate executable file: mise"]
MapFault == [kind |-> "Error", message |-> "raw.map is not a function"]

InitRun ==
    /\ parseIdle
    /\ filterIdle
    /\ prefix = <<>>
    /\ matched = <<>>
    /\ projects = <<>>
    /\ rpc = "start"
    /\ listing = NoListing
    /\ filtered = <<>>
    /\ outputs = <<>>
    /\ failures = <<>>
    /\ thrown = NoFault
    /\ prev = <<>>

filterVars == <<tasks, baseRef, pc, idx, result, calls>>

(* const prefix = core.getInput('task-prefix'); const baseRef = ... *)
RunGetInputs ==
    /\ rpc = "start"
    /\ prefix' \in RunPrefixes
    /\ baseRef' \in BaseRefs
    /\ rpc' = "list"
    /\ UNCHANGED <<raw, parsed, ppc, tasks, pc, idx, result, calls, log>>
    /\ UNCHANGED <<matched, projects, listing, filtered, outputs, failures,
                   thrown, prev>>

(* core.getInput throws *)
RunGetInputThrows ==
    /\ rpc = "start"
    /\ thrown' \in InputFaults
    /\ rpc' = "catch"
    /\ UNCHANGED <<raw, parsed, ppc, log>>
    /\ UNCHANGED filterVars
    /\ UNCHANGED <<prefix, matched, projects, listing, filtered, outputs,
                   failures, prev>>

(* execMiseTasksLs: exec.exec('mise', ...) is called and awaited *)
ListExec ==
    /\ rpc = "list"
    /\ listing' = [status |-> "pending", code |-> 0, stdout |-> "none"]
    /\ rpc' = "listAwait"
    /\ UNCHANGED <<raw, parsed, ppc, log>>
    /\ UNCHANGED filterVars
    /\ UNCHANGED <<prefix, matched, projects, filtered, outputs, failures,
                   thrown, prev>>

(* exec.exec resolves with a non-zero exit code: warn, return [] *)
ListFails ==
    /\ rpc = "listAwait"
    /\ listing' = [status |-> "returned", code |-> 1, stdout |-> "none"]
    /\ log' = Append(log, Warning("mise tasks ls failed, returning empty task list",
                                  <<>>, ""))
    /\ raw' = <<>>
    /\ rpc' = "parse"
    /\ UNCHANGED <<parsed, ppc>>
    /\ UNCHANGED filterVars
    /\ UNCHANGED <<prefix, matched, projects, filtered, outputs, failures,
                   thrown, prev>>

(* exec.exec resolves with 0: return JSON.parse(stdout), or [] with a     *)
(* warning when JSON.parse throws                                         *)
ListReturns ==
    /\ rpc = "listAwait"
    /\ \E out \in StdoutKinds :
         /\ listing' = [status |-> "returned", code |-> 0, stdout |-> out]
         /\ IF out = "tasks" THEN raw' \in RunRawLists ELSE raw' = <<>>
         /\ IF out = "not json"
            THEN log' = Append(log, Warning("Failed to parse mise tasks ls output as JSON",
                                            <<>>, ""))
            ELSE log' = log
    /\ rpc' = "parse"
    /\ UNCHANGED <<parsed, ppc>>
    /\ UNCHANGED filterVars
    /\ UNCHANGED <<prefix, matched, projects, filtered, outputs, failures,
                   thrown, prev>>

(* exec.exec rejects (mise cannot be started) *)
ListThrows ==
    /\ rpc = "listAwait"
    /\ listing' = [status |-> "threw", code |-> 0, stdout |-> "none"]
    /\ thrown' = SpawnFault
    /\ rpc' = "catch"
    /\ UNCHANGED <<raw, parsed, ppc, log>>
    /\ UNCHANGED filterVars
    /\ UNCHANGED <<prefix, matched, projects, filtered, outputs, failures, prev>>

(* the value execMiseTasksLs returned is an array *)
listedArray == ~(listing.code = 0 /\ listing.stdout = "null")

(* mutant of RunParse: the change filter is entered whatever base-ref is  *)
RunParse_alwaysFilters ==
    /\ rpc = "parse"
    /\ listedArray
    /\ parsed' = parseMiseTasks(raw)
    /\ matched' = filterByPrefix(parsed', prefix)
    /\ tasks' = matched'
    /\ pc' = "enter"
    /\ rpc' = "filter"
    /\ UNCHANGED <<filtered, thrown>>
    /\ UNCHANGED <<raw, ppc, baseRef, idx, result, calls, log>>
    /\ UNCHANGED <<prefix, projects, listing, outputs, failures, prev>>

(* parseMiseTasks(raw), filterByPrefix(parsed, prefix), and the choice    *)
(* between filterByChangedSources(matched, baseRef) and matched           *)
RunParse ==
    /\ rpc = "parse"
    /\ IF ~listedArray
       THEN /\ thrown' = MapFault
            /\ rpc' = "catch"
            /\ UNCHANGED <<parsed, matched, tasks, pc, filtered>>
       ELSE /\ parsed' = parseMiseTasks(raw)
            /\ matched' = filterByPrefix(parsed', prefix)
            /\ IF baseRef # <<>>
               THEN /\ tasks' = matched'
                    /\ pc' = "enter"
                    /\ rpc' = "filter"
                    /\ UNCHANGED filtered
               ELSE /\ filtered' = matched'
                    /\ rpc' = "group"
                    /\ UNCHANGED <<tasks, pc>>
            /\ UNCHANGED thrown
    /\ UNCHANGED <<raw, ppc, baseRef, idx, result, calls, log>>
    /\ UNCHANGED <<prefix, projects, listing, outputs, failures, prev>>

(* mutant of RunFiltered: the pass is not awaited, run goes on with what  *)
(* the pass has pushed so far                                             *)
RunFiltered_notAwaited ==
    /\ rpc = "filter"
    /\ filtered' = ResultTasks
    /\ rpc' = "group"
    /\ UNCHANGED <<raw, parsed, ppc, log>>
    /\ UNCHANGED filterVars
    /\ UNCHANGED <<prefix, matched, projects, listing, outputs, failures,
                   thrown, prev>>

(* the await of filterByChangedSources resumes with its result *)
RunFiltered ==
    /\ rpc = "filter"
    /\ pc = "done"
    /\ filtered' = ResultTasks
    /\ rpc' = "group"
    /\ UNCHANGED <<raw, parsed, ppc, log>>
    /\ UNCHANGED filterVars
    /\ UNCHANGED <<prefix, matched, projects, listing, outputs, failures,
                   thrown, prev>>

(* the core.info line of one project *)
projectLine(g) == Info("  ", g.project \o <<":", " ">> \o g.tasks, "")

(* groupByProject, setOutput and the core.info lines *)
RunGroup ==
    /\ rpc = "group"
    /\ projects' = groupByProject(filtered)
    /\ outputs' = Append(outputs, [name  |-> "projects",
                                   value |-> jsonStringify(projects')])
    /\ log' = Append(log, Info("Discovered " \o ToString(Len(projects'))
                                   \o " project(s) matching '", prefix, "*':"))
                \o [k \in 1..Len(projects') |-> projectLine(projects'[k])]
    /\ rpc' = "done"
    /\ UNCHANGED <<raw, parsed, ppc>>
    /\ UNCHANGED filterVars
    /\ UNCHANGED <<prefix, matched, listing, filtered, failures, thrown, prev>>

(* mutant of RunCatch: the thrown value's text is always reported *)
RunCatch_rawMessage ==
    /\ rpc = "catch"
    /\ failures' = Append(failures, thrown.message)
    /\ rpc' = "done"
    /\ UNCHANGED <<raw, parsed, ppc, log>>
    /\ UNCHANGED filterVars
    /\ UNCHANGED <<prefix, matched, projects, listing, filtered, outputs,
                   thrown, prev>>

(* catch (error): setFailed(error.message) or the fixed text *)
RunCatch ==
    /\ rpc = "catch"
    /\ failures' = Append(failures, IF thrown.kind = "Error"
                                    THEN thrown.message
                                    ELSE "An unexpected error occurred")
    /\ rpc' = "done"
    /\ UNCHANGED <<raw, parsed, ppc, log>>
    /\ UNCHANGED filterVars
    /\ UNCHANGED <<prefix, matched, projects, listing, filtered, outputs,
                   thrown, prev>>

NextRun ==
    \/ RunGetInputs
    \/ RunGetInputThrows
    \/ ListExec
    \/ ListFails
    \/ ListReturns
    \/ ListThrows
    \/ RunParse
    \/ FilterEnter
    \/ TaskNoSources
    \/ ExecGit
    \/ ExecReturns
    \/ ExecThrows
    \/ FilterReturn
    \/ RunFiltered
    \/ RunGroup
    \/ RunCatch

SpecRun == InitRun /\ [][NextRun]_vars

-----------------------------------------------------------------------------
(* Claims about run *)

(* run completed without entering its catch block *)
RunSucceeded == rpc = "done" /\ thrown = NoFault

(* what setOutput must have been given for the task list ts *)
ProjectsOutput(ts) ==
    [name |-> "projects", value |-> jsonStringify(groupByProject(ts))]

PrefixFiltered == filterByPrefix(parseMiseTasks(raw), prefix)

EmptyArrayText == <<"[", "]">>

(* C16: with an empty base-ref no diff query is ever issued and the       *)
(* 'projects' output is the JSON text of groupByProject(filterByPrefix(   *)
(* parseMiseTasks(raw), prefix)); with a non-empty base-ref the change    *)
(* filter is given exactly the prefix-filtered list and its result is     *)
(* what is grouped.                                                       *)
C16_BaseRefSwitch ==
    /\ baseRef = <<>> =>
         /\ calls = <<>>
         /\ pc = "idle"
         /\ RunSucceeded => outputs = <<ProjectsOutput(PrefixFiltered)>>
    /\ (baseRef # <<>> /\ thrown = NoFault /\ rpc \in {"filter", "group", "done"}) =>
         /\ tasks = PrefixFiltered
         /\ pc # "idle"
         /\ rpc \in {"group", "done"} =>
              /\ pc = "done"
              /\ filtered = ExpectedTasks(Len(tasks))
         /\ rpc = "done" => outputs = <<ProjectsOutput(filtered)>>

(* a run without base-ref finished although tasks with sources matched *)
C16_Witness ==
    /\ RunSucceeded
    /\ baseRef = <<>>
    /\ \E i \in 1..Len(matched) : matched[i].sources # <<>>
    /\ Len(matched) < Len(raw)
    /\ outputs # <<>>

(* a run with base-ref finished after the pass dropped a matching task *)
C16_FilteredWitness ==
    /\ RunSucceeded
    /\ baseRef # <<>>
    /\ 0 < Len(filtered)
    /\ Len(filtered) < Len(matched)
    /\ Len(matched) < Len(raw)

(* the listing ended with a non-zero exit, or with output that is not a   *)
(* JSON array of tasks                                                    *)
ListingUnusable ==
    /\ listing.status = "returned"
    /\ listing.code # 0 \/ listing.stdout # "tasks"

(* C17, as claimed: whenever the task listing fails (non-zero exit) or    *)
(* its output is malformed or unparseable, execMiseTasksLs returns the    *)
(* empty sequence, no fault is raised, and run finishes with 'projects'   *)
(* set to '[]' without calling setFailed.                                 *)
C17_Original ==
    ListingUnusable =>
        /\ listedArray
        /\ raw = <<>>
        /\ thrown = NoFault
        /\ failures = <<>>
        /\ rpc = "done" => outputs = <<[name |-> "projects", value |-> EmptyArrayText]>>

(* C18: setFailed is called only after a fault was raised, once, with the *)
(* fault's message when it is an Error and 'An unexpected error occurred' *)
(* otherwise; a run that raised no fault never calls setFailed and sets   *)
(* 'projects' exactly once, to '[]' when no task is left.                 *)
C18_FailureOnlyOnFault ==
    /\ Len(outputs) <= 1
    /\ Len(failures) <= 1
    /\ failures # <<>> =>
         /\ thrown # NoFault
         /\ thrown.kind = "Error" => failures = <<thrown.message>>
         /\ thrown.kind # "Error" => failures = <<"An unexpected error occurred">>
    /\ thrown = NoFault => failures = <<>>
    /\ RunSucceeded =>
         /\ Len(outputs) = 1
         /\ outputs[1].name = "projects"
         /\ filtered = <<>> => outputs[1].value = EmptyArrayText

(* run ended after a value that is no Error was thrown *)
C18_Witness ==
    /\ rpc = "done"
    /\ thrown.kind = "other"
    /\ failures = <<"An unexpected error occurred">>
    /\ outputs = <<>>

(* a run in which a diff query threw and one in which nothing was left *)
C18_QueryThrewWitness ==
    /\ RunSucceeded
    /\ \E k \in 1..Len(calls) : Threw(k)
    /\ failures = <<>>

C18_NothingLeftWitness ==
    /\ RunSucceeded
    /\ raw # <<>>
    /\ matched # <<>>
    /\ filtered = <<>>
    /\ outputs = <<[name |-> "projects", value |-> EmptyArrayText]>>

-----------------------------------------------------------------------------
(* Claims about the order of the stages of run *)

(* the task at position i of the list given to the pass was queried once, *)
(* and the query is over                                                  *)
QueriedOnce(i) ==
    /\ Cardinality(CallsFor(i)) = 1
    /\ \A k \in CallsFor(i) : calls[k].status # "pending"

(* C21: the stages run in the order listing, normalize, prefix filter,    *)
(* change filter (optional), group, output: a diff query is made only for *)
(* a task whose localName has the prefix and whose sources are not empty, *)
(* only after the listing has completed, and 'projects' is set only after *)
(* the pass is over: every query it makes has returned or thrown.         *)
C21_StageOrder ==
    /\ calls # <<>> =>
         /\ listing.status = "returned"
         /\ rpc \in {"filter", "group", "done"}
         /\ parsed = parseMiseTasks(raw)
         /\ matched = filterByPrefix(parsed, prefix)
         /\ tasks = matched
    /\ \A k \in 1..Len(calls) :
         /\ HasPrefix(TaskOf(k).localName, prefix)
         /\ TaskOf(k).sources # <<>>
         /\ \E i \in 1..Len(parsed) : parsed[i] = TaskOf(k)
    /\ rpc \in {"group", "done"} /\ thrown = NoFault =>
         /\ Pending = {}
         /\ pc \in {"idle", "done"}
         /\ pc = "done" =>
              \A i \in Positions : tasks[i].sources # <<>> => QueriedOnce(i)
    /\ outputs # <<>> =>
         /\ rpc = "done"
         /\ projects = groupByProject(filtered)
         /\ Pending = {}

(* a run with base-ref ended: a matching task was queried, a task with    *)
(* sources that does not match the prefix was listed                      *)
C21_Witness ==
    /\ RunSucceeded
    /\ baseRef # <<>>
    /\ outputs # <<>>
    /\ Len(calls) >= 2
    /\ \E i \in 1..Len(parsed) :
         /\ ~HasPrefix(parsed[i].localName, prefix)
         /\ parsed[i].sources # <<>>

-----------------------------------------------------------------------------
(* groupByProject followed by the split of the tasks string *)

(* the pattern of the sed command that splits the tasks string *)
Separator == <<" ", ":", ":", ":", " ">>

(* sep occurs in str at 1-based position k *)
occursAt(str, sep, k) ==
    k + Len(sep) - 1 <= Len(str) /\ SubSeq(str, k, k + Len(sep) - 1) = sep

(* s/sep/\n/g and the read of the lines: the pieces of str between the    *)
(* occurrences of sep, taken from left to right without overlap           *)
RECURSIVE split(_, _)
split(str, sep) ==
    IF \E k \in 1..Len(str) : occursAt(str, sep, k)
    THEN LET k == CHOOSE k \in 1..Len(str) :
                      /\ occursAt(str, sep, k)
                      /\ \A j \in 1..(k - 1) : ~occursAt(str, sep, j)
         IN <<SubSeq(str, 1, k - 1)>>
                \o split(SubSeq(str, k + Len(sep), Len(str)), sep)
    ELSE <<str>>

(* the non-empty pieces of the separator *)
SeparatorPieces ==
    {SubSeq(Separator, i, j) : i \in 1..Len(Separator), j \in 1..Len(Separator)}
        \ {<<>>}

(* task names made of the characters of the separator: its pieces, alone  *)
(* and after a letter, the empty name, and names of a second project      *)
JoinNames ==
    {<<>>, <<"a">>, <<"a", " ", ":", ":", ":">>, <<"a", " ", ":", ":", ":", " ", "a">>}
        \cup SeparatorPieces
        \cup {Marker \o <<"p", ":">> \o n : n \in {<<"a">>, <<" ", ":", ":", ":">>}}

JoinRaw == {NoSourcesRaw(n) : n \in JoinNames}

InitJoin ==
    /\ filterIdle
    /\ outerIdle
    /\ raw \in SeqsUpTo(JoinRaw, MaxRaw)
    /\ parsed = <<>>
    /\ ppc = "call"

SpecJoin == InitJoin /\ [][NextPipe]_vars

(* no listed name is empty or contains the separator *)
NamesAsRequired ==
    \A i \in 1..Len(raw) :
        /\ raw[i].name # <<>>
        /\ ~Occurs(Separator, raw[i].name)

(* no listed name ends with the separator less its last space *)
NoNameEndsInSeparatorHead ==
    \A i \in 1..Len(raw) :
        ~IsSuffix(SubSeq(Separator, 1, Len(Separator) - 1), raw[i].name)

(* splitting the tasks string of every group gives the qualified names of *)
(* the tasks of its project, one piece per task, in input order           *)
RoundTrip ==
    \A g \in 1..Len(projects) :
        split(projects[g].tasks, Separator)
            = NamesOf(matched, projects[g].project, Len(matched))

(* C22 as stated: when no task name contains " ::: " or is empty,         *)
(* splitting each group's tasks string on " ::: " gives exactly the       *)
(* qualified names of the project's tasks, one per task, in input order.  *)
C22_Original == (ppc = "grouped" /\ NamesAsRequired) => RoundTrip

(* C22: when no task name contains " ::: ", ends with " :::" or is empty, *)
(* splitting each group's tasks string on " ::: " gives exactly the       *)
(* qualified names of the project's tasks, one per task, in input order.  *)
C22_RoundTrip ==
    (ppc = "grouped" /\ NamesAsRequired /\ NoNameEndsInSeparatorHead) => RoundTrip

(* three admitted names in two groups, one of them made of colons and     *)
(* spaces, split back into the three names                                *)
C22_Witness ==
    /\ ppc = "grouped"
    /\ NamesAsRequired
    /\ NoNameEndsInSeparatorHead
    /\ Len(raw) = 3
    /\ Len(projects) = 2
    /\ \E g \in 1..Len(projects) :
         /\ Len(split(projects[g].tasks, Separator)) = 2
         /\ split(projects[g].tasks, Separator)[1] = <<":", ":", ":", " ">>

(* a name ending in " :::" is followed by another name of its project *)
C22_OverlapWitness ==
    /\ ppc = "grouped"
    /\ NamesAsRequired
    /\ ~RoundTrip

-----------------------------------------------------------------------------
(* Claims about the log of a filterByChangedSources pass *)

Header == Info("Filtering tasks by changes since ", baseRef, "...")

(* the tasks the loop has finished with *)
Done == {i \in Positions : Processed(i)}

(* the log event of the task at position i: the header comes first *)
EventOf(i) == log[i + 1]

(* the event of a task is of the kind its handling calls for *)
EventFits(i) ==
    /\ EventOf(i).msg[1] = "  "
    /\ EventOf(i).msg[2] = tasks[i].task
    /\ IF tasks[i].sources = <<>>
       THEN /\ EventOf(i).level = "info"
            /\ EventOf(i).msg[3] = ": no sources, included"
       ELSE \A k \in CallsFor(i) :
              /\ Threw(k) <=> EventOf(i).level = "warning"
              /\ Returned(k, ExitCodes) <=> EventOf(i).level = "info"
              /\ Threw(k) => EventOf(i).msg[3] = ": git diff failed, included (fail-open)"
              /\ Returned(k, {0}) => EventOf(i).msg[3] = ": unchanged, skipped"
              /\ Returned(k, ExitCodes \ {0}) => EventOf(i).msg[3] = ": changed, included"

(* C23: a pass logs the header 'Filtering tasks by changes since          *)
(* <baseRef>...' exactly once, before any diff query and also for an      *)
(* empty task list, and then exactly one event per input task in input    *)
(* order: an info message when the task has no sources or its query       *)
(* returned a code, a warning when and only when its query threw.         *)
C23_LogEvents ==
    /\ pc = "enter" => log = <<>> /\ calls = <<>>
    /\ pc # "enter" =>
         /\ Len(log) = 1 + Cardinality(Done)
         /\ log[1] = Header
         /\ \A k \in 2..Len(log) : log[k].msg[1] # Header.msg[1]
         /\ \A i \in Done : EventFits(i)
    /\ pc = "done" => Len(log) = 1 + Len(tasks)
    /\ \A k \in 1..Len(log) :
         log[k].level = "warning" =>
             /\ k > 1
             /\ \E c \in CallsFor(k - 1) : Threw(c)

(* a finished pass over three tasks: one without sources, one whose query *)
(* returned, one whose query threw                                        *)
C23_Witness ==
    /\ pc = "done"
    /\ Len(tasks) = 3
    /\ Len(log) = 4
    /\ tasks[1].sources = <<>>
    /\ log[2].level = "info"
    /\ \E k \in CallsFor(2) : Returned(k, {0})
    /\ log[3].level = "info"
    /\ log[4].level = "warning"

(* a finished pass over the empty list has logged the header alone *)
C23_EmptyListWitness ==
    /\ pc = "done"
    /\ tasks = <<>>
    /\ log = <<Header>>

=============================================================================
